---------------------------- MODULE Spec2Model ----------------------------
(***************************************************************************)
(* Eloquent (VS Code text-to-speech extension): the synthesis orchestrator *)
(* (synthesizeFromSelection / readAloudCommand), the authentication-failure*)
(* classifier, the providers' error formatting and HybridAudioPlayer with  *)
(* its webview surface.                                                    *)
(*                                                                         *)
(* JavaScript strings are sequences of one-character strings, so that      *)
(* toLowerCase, includes and template concatenation are computed.          *)
(***************************************************************************)
EXTENDS Integers, Sequences, FiniteSets, TLC

VARIABLES
    \* ---- extension.ts: persisted settings and one readAloud run
    settings,        \* getConfiguration('eloquent'): provider, the three key slots, maxCharacters
    pc,              \* position of the readAloud run
    providerType,    \* const providerType = config.provider
    apiKey,          \* let apiKey
    attempt,         \* loop variable of the retry loop
    token,           \* token.isCancellationRequested of the current withProgress
    message,         \* message of the error caught last
    shouldRetryAuth, \* const shouldRetryAuth of the last catch
    result,          \* value returned by synthesizeFromSelection
    calls,           \* provider.synthesize calls of this run: <<[key, attempt, bytes, error, auth]>>
    errorShown,      \* text of the terminal showErrorMessage of this run
    offers,          \* number of "Enter a new key?" offers of this run
    keyPrompts,      \* showInputBox prompts of this run: <<entered value>>
    retried,         \* the run took the `continue` of the auth retry
    preCancelled,    \* attempt whose progress callback found the token requested (-1: none)
    played,          \* audioPlayer.play calls of this run: <<bytes>>
    request,         \* the editor state the run met: [editor, len]
    response,        \* the backend response under classification (SpecClassify)
    rate,            \* the native rates computed from a normalized speed (SpecSpeed)
    \* ---- provider changes (SpecSettings)
    suppressProviderChangePrompt, \* let suppressProviderChangePrompt (extension.ts)
    changeEvents,    \* configuration-change events for eloquent.provider not yet delivered
    activeFlows,     \* handleProviderKeyPrompt calls suspended in a dialog: <<[source, provider, at]>>
    promptFlows,     \* who called handleProviderKeyPrompt since the last provider change
    \* ---- SystemAudioPlayer (SpecSystem)
    system,          \* the object's fields: [currentProcess, tempFile, onDidStopCallback] (0: null)
    systemEnv,       \* its environment and history: [alive, disk, now, sessions, stops, unlinkFailed]
    \* ---- extension.ts / statusBar.ts: playing indicators
    isPlaying,       \* let isPlaying (extension.ts)
    statusBar,       \* StatusBarManager.isPlaying
    \* ---- HybridAudioPlayer
    panel,           \* this.panel is defined
    tempFile,        \* this.tempFile (0: null), a file named by its Date.now() stamp
    onDidStopCallback, \* this.onDidStopCallback (0: undefined), named by its session
    \* ---- environment of the player
    disk,            \* temp audio files on disk
    now,             \* last value read from Date.now()
    surface,         \* the document loaded in the webview
    toHost,          \* messages posted by the surface, not yet received by the host
    toSurface,       \* messages posted by the host, not yet received by the surface
    saveDialog,      \* downloadCurrentAudio is suspended in showSaveDialog
    \* ---- history
    sessions,        \* number of play() calls so far; a session is named by its number
    onStopCount,     \* invocations of the registered onStop since play registered it (up to 2)
    lastEvent,       \* last operation the host ran on the player
    unlinkFailed     \* some unlinkSync has thrown

(***************************************************************************)
(* Bounds                                                                  *)
(***************************************************************************)
MaxTextLen == 3

MaxSessions == 2

MaxTime == 2

MaxQueue == 1

\* A normalized speed is n / SpeedScale
SpeedScale == 40

(***************************************************************************)
(* Strings                                                                 *)
(***************************************************************************)
UpperLetters ==
    <<"A","B","C","D","E","F","G","H","I","J","K","L","M","N","O","P","Q","R","S","T","U","V","W","X","Y","Z">>

LowerLetters ==
    <<"a","b","c","d","e","f","g","h","i","j","k","l","m","n","o","p","q","r","s","t","u","v","w","x","y","z">>

DigitChars ==
    <<"0","1","2","3","4","5","6","7","8","9">>

LowerChar(c) ==
    IF \E i \in 1..26 : UpperLetters[i] = c
    THEN LowerLetters[CHOOSE i \in 1..26 : UpperLetters[i] = c]
    ELSE c

UpperChar(c) ==
    IF \E i \in 1..26 : LowerLetters[i] = c
    THEN UpperLetters[CHOOSE i \in 1..26 : LowerLetters[i] = c]
    ELSE c

\* String.prototype.toLowerCase
toLowerCase(s) == [i \in 1..Len(s) |-> LowerChar(s[i])]

\* String.prototype.toUpperCase
toUpperCase(s) == [i \in 1..Len(s) |-> UpperChar(s[i])]

\* String.prototype.includes
includes(s, sub) ==
    \E i \in 0..(Len(s) - Len(sub)) : SubSeq(s, i + 1, i + Len(sub)) = sub

\* `${n}` for a non-negative integer
RECURSIVE IntToString(_)
IntToString(n) ==
    IF n < 10 THEN <<DigitChars[n + 1]>>
    ELSE IntToString(n \div 10) \o <<DigitChars[(n % 10) + 1]>>

(***************************************************************************)
(* isAuthenticationError (extension.ts)                                    *)
(***************************************************************************)
StatusMarkers ==
    { <<"4","0","1">>, <<"4","0","3">> }

PhraseMarkers ==
    { <<"u","n","a","u","t","h","o","r","i","z","e","d">>,
      <<"u","n","a","u","t","h","o","r","i","s","e","d">>,
      <<"a","u","t","h","e","n","t","i","c","a","t","i","o","n">>,
      <<"i","n","v","a","l","i","d"," ","a","p","i"," ","k","e","y">>,
      <<"i","n","c","o","r","r","e","c","t"," ","a","p","i"," ","k","e","y">>,
      <<"i","n","v","a","l","i","d"," ","s","u","b","s","c","r","i","p","t","i","o","n"," ","k","e","y">>,
      <<"a","c","c","e","s","s"," ","d","e","n","i","e","d">> }

\* The classifier without `message.toLowerCase()`
isAuthenticationError_CaseSensitive(m) ==
    \E marker \in StatusMarkers \cup PhraseMarkers : includes(m, marker)

isAuthenticationError(m) ==
    LET normalized == toLowerCase(m)
    IN  \E marker \in StatusMarkers \cup PhraseMarkers : includes(normalized, marker)

(***************************************************************************)
(* Backend responses and the providers' error messages                     *)
(***************************************************************************)
ApiErrorPrefix ==
    <<"A","P","I"," ","e","r","r","o","r",":"," ">>

ElevenLabsErrorPrefix ==
    <<"E","l","e","v","e","n","L","a","b","s"," ","A","P","I"," ","e","r","r","o","r",":"," ">>

AzureErrorPrefix ==
    <<"A","z","u","r","e"," ","A","P","I"," ","e","r","r","o","r",":"," ">>

Dash ==
    <<" ","-"," ">>

\* A response body: its raw text and what JSON.parse makes of it
\* (json = FALSE: JSON.parse throws; a message of <<>>: the field is absent).
TextBody(t) ==
    [raw |-> t, json |-> FALSE, errorMessage |-> <<>>, detailMessage |-> <<>>]

OpenAIJsonBody(m) ==
    [raw |-> <<"{","\"","e","r","r","o","r","\"",":","{","\"","m","e","s","s","a","g","e","\"",":","\"">>
             \o m \o <<"\"","}","}">>,
     json |-> TRUE, errorMessage |-> m, detailMessage |-> <<>>]

ElevenLabsJsonBody(m) ==
    [raw |-> <<"{","\"","d","e","t","a","i","l","\"",":","{","\"","m","e","s","s","a","g","e","\"",":","\"">>
             \o m \o <<"\"","}","}">>,
     json |-> TRUE, errorMessage |-> <<>>, detailMessage |-> m]

EmptyJsonBody ==
    [raw |-> <<"{","}">>, json |-> TRUE, errorMessage |-> <<>>, detailMessage |-> <<>>]

\* OpenAIProvider.synthesize, res.statusCode !== 200
OpenAIErrorMessage(status, body) ==
    IF body.json /\ body.errorMessage # <<>>
    THEN body.errorMessage
    ELSE ApiErrorPrefix \o IntToString(status)

\* ElevenLabsProvider.synthesize, res.statusCode !== 200
ElevenLabsErrorMessage(status, body) ==
    IF body.json /\ body.detailMessage # <<>>
    THEN body.detailMessage
    ELSE ElevenLabsErrorPrefix \o IntToString(status)

\* AzureProvider.synthesize, res.statusCode !== 200
AzureErrorMessage(status, body) ==
    AzureErrorPrefix \o IntToString(status) \o Dash \o body.raw

(***************************************************************************)
(* HybridAudioPlayer (player/hybrid.ts)                                    *)
(***************************************************************************)
playerVars ==
    <<panel, tempFile, onDidStopCallback, disk, now, surface, toHost, toSurface,
      saveDialog, sessions, onStopCount, lastEvent, unlinkFailed>>

indicatorVars ==
    <<isPlaying, statusBar>>

NoDocument ==
    [session |-> 0, src |-> 0, phase |-> "none", playing |-> FALSE]

\* play() left before `webview.html = getHtml(audioUri)`: the old document stays
Document_NotInstalled(s, src) ==
    surface

\* getHtml(audioUri): a fresh document whose audio element loads src
Document(s, src) ==
    [session |-> s, src |-> src, phase |-> "loading", playing |-> FALSE]

Min(a, b) ==
    IF a < b THEN a ELSE b

\* The outcomes of the unlinkSync of cleanup: it is called only for a file that exists
UnlinkOutcomes(tf, dk) ==
    IF tf # 0 /\ tf \in dk THEN BOOLEAN ELSE {TRUE}

\* cleanup that forgets the file without unlinking it
cleanup_KeepsFile(tf, dk, unlinkOk) ==
    IF tf # 0 /\ tf \in dk
    THEN [tempFile |-> 0, disk |-> dk, threw |-> FALSE]
    ELSE [tempFile |-> tf, disk |-> dk, threw |-> FALSE]

\* cleanup without the existsSync test
cleanup_Unconditional(tf, dk, unlinkOk) ==
    [tempFile |-> 0, disk |-> IF unlinkOk THEN dk \ {tf} ELSE dk, threw |-> ~unlinkOk]

\* cleanup whose assignment of null is skipped when unlinkSync throws
cleanup_ThrowKeepsReference(tf, dk, unlinkOk) ==
    IF tf # 0 /\ tf \in dk
    THEN [tempFile |-> IF unlinkOk THEN 0 ELSE tf,
          disk |-> IF unlinkOk THEN dk \ {tf} ELSE dk, threw |-> ~unlinkOk]
    ELSE [tempFile |-> tf, disk |-> dk, threw |-> FALSE]

\* HybridAudioPlayer.cleanup, as a function of the fields it reads;
\* unlinkOk = FALSE: unlinkSync throws and the error is swallowed.
cleanup(tf, dk, unlinkOk) ==
    IF tf # 0 /\ tf \in dk
    THEN [tempFile |-> 0, disk |-> IF unlinkOk THEN dk \ {tf} ELSE dk, threw |-> ~unlinkOk]
    ELSE [tempFile |-> tf, disk |-> dk, threw |-> FALSE]

\* The callback readAloudCommand passes to play()
OnStopClosure ==
    /\ statusBar' = FALSE
    /\ isPlaying' = FALSE

\* A handler that drops the notification
InvokeOnDidStopCallback_Never ==
    /\ UNCHANGED indicatorVars
    /\ UNCHANGED onStopCount

\* A handler that runs the callback twice
InvokeOnDidStopCallback_Twice ==
    IF onDidStopCallback # 0
    THEN /\ OnStopClosure
         /\ onStopCount' = Min(onStopCount + 2, 2)
    ELSE /\ UNCHANGED indicatorVars
         /\ UNCHANGED onStopCount

\* this.onDidStopCallback?.()
InvokeOnDidStopCallback ==
    IF onDidStopCallback # 0
    THEN /\ OnStopClosure
         /\ onStopCount' = Min(onStopCount + 1, 2)
    ELSE /\ UNCHANGED indicatorVars
         /\ UNCHANGED onStopCount

\* play without its call of cleanup
play_NoCleanup(audioData, onStop, t, writeOk, unlinkOk) ==
    /\ onDidStopCallback' = onStop
    /\ UNCHANGED unlinkFailed
    /\ now' = t
    /\ tempFile' = t
    /\ sessions' = sessions + 1
    /\ IF writeOk
       THEN /\ disk' = disk \cup {t}
            /\ panel' = TRUE
            /\ toHost' = IF panel THEN toHost ELSE <<>>
            /\ surface' = Document(sessions + 1, t)
            /\ toSurface' = <<>>
            /\ lastEvent' = IF lastEvent \in {"play", "play2"} THEN "play2" ELSE "play"
       ELSE /\ disk' = disk
            /\ UNCHANGED <<panel, toHost, surface, toSurface>>
            /\ lastEvent' = "playThrew"
    /\ onStopCount' = 0
    /\ UNCHANGED saveDialog

\* HybridAudioPlayer.play(audioData, onStop), up to its return or throw;
\* t = Date.now(), writeOk = FALSE: writeFileSync throws.
play(audioData, onStop, t, writeOk, unlinkOk) ==
    LET c == cleanup(tempFile, disk, unlinkOk)
    IN  /\ onDidStopCallback' = onStop
        /\ unlinkFailed' = (unlinkFailed \/ c.threw)
        /\ now' = t
        /\ tempFile' = t
        /\ sessions' = sessions + 1
        /\ IF writeOk
           THEN /\ disk' = c.disk \cup {t}
                /\ panel' = TRUE
                /\ toHost' = IF panel THEN toHost ELSE <<>>
                /\ surface' = Document(sessions + 1, t)
                /\ toSurface' = <<>>
                /\ lastEvent' = IF lastEvent \in {"play", "play2"} THEN "play2" ELSE "play"
           ELSE /\ disk' = c.disk
                /\ UNCHANGED <<panel, toHost, surface, toSurface>>
                /\ lastEvent' = "playThrew"
        /\ onStopCount' = 0
        /\ UNCHANGED saveDialog

(***************************************************************************)
(* Settings and credentials (config.ts, extension.ts)                      *)
(***************************************************************************)
Providers ==
    {"openai", "elevenlabs", "azure", "local"}

\* A value of eloquent.provider written by hand in settings.json
UnknownProvider ==
    "unknown"

ProviderValues ==
    Providers \cup {UnknownProvider}

Keys ==
    {"k1", "k2"}

\* showInputBox / showErrorMessage resolve to undefined when dismissed
undefined ==
    "undefined"

KeyInputs ==
    Keys \cup {"", undefined}

\* A truthiness test that lets the empty string pass
Truthy_EmptyString(v) ==
    v # undefined

\* `if (key)`, `if (!entered)`: the truthiness of a string or undefined
Truthy(v) ==
    v \notin {"", undefined}

Buffers ==
    {1, 2}

\* getProviderApiKey
getProviderApiKey(st, provider) ==
    CASE provider = "openai" -> st.openaiApiKey
      [] provider = "elevenlabs" -> st.elevenlabsApiKey
      [] provider = "azure" -> st.azureApiKey
      [] OTHER -> ""

\* A prompts table whose lookup falls back to the OpenAI entry
PromptSetting_DefaultOpenAI(provider) ==
    CASE provider = "elevenlabs" -> "elevenlabsApiKey"
      [] provider = "azure" -> "azureApiKey"
      [] OTHER -> "openaiApiKey"

\* promptForApiKey: prompts[provider]?.setting ("" when there is no entry)
PromptSetting(provider) ==
    CASE provider = "openai" -> "openaiApiKey"
      [] provider = "elevenlabs" -> "elevenlabsApiKey"
      [] provider = "azure" -> "azureApiKey"
      [] OTHER -> ""

\* promptForApiKey, the settings after the input box resolved to key
promptForApiKeyStore(st, provider, key) ==
    IF PromptSetting(provider) # "" /\ Truthy(key)
    THEN [st EXCEPT ![PromptSetting(provider)] = key]
    ELSE st

\* A promptForApiKey that shows its input box without looking the provider up
promptForApiKeyResult_NoLookup(provider, key) ==
    key

\* promptForApiKey, the value returned
promptForApiKeyResult(provider, key) ==
    IF PromptSetting(provider) = "" THEN undefined ELSE key

\* createProvider
createProvider(type, key) ==
    CASE type = "local" -> [name |-> "Local", apiKey |-> ""]
      [] type = "elevenlabs" -> [name |-> "ElevenLabs", apiKey |-> key]
      [] type = "azure" -> [name |-> "Azure", apiKey |-> key]
      [] OTHER -> [name |-> "OpenAI", apiKey |-> key]

(***************************************************************************)
(* provider.synthesize: the outcomes of one call                           *)
(***************************************************************************)
IncorrectKeyText ==
    <<"I","n","c","o","r","r","e","c","t"," ","A","P","I"," ","k","e","y"," ","p","r","o","v","i","d","e","d">>

ServerErrorText ==
    <<"I","n","t","e","r","n","a","l"," ","s","e","r","v","e","r"," ","e","r","r","o","r">>

SocketHangUp ==
    <<"s","o","c","k","e","t"," ","h","a","n","g"," ","u","p">>

EspeakFailed ==
    <<"e","s","p","e","a","k"," ","c","o","m","m","a","n","d"," ","f","a","i","l","e","d"," ","w","i","t","h"," ","c","o","d","e"," ","1","."," ","I","s"," ","e","s","p","e","a","k"," ","i","n","s","t","a","l","l","e","d","?">>

PowerShellStderr ==
    <<"U","n","a","u","t","h","o","r","i","z","e","d","A","c","c","e","s","s","E","x","c","e","p","t","i","o","n">>

\* Bodies of the non-200 responses the orchestrator is run against
RunBodies ==
    { TextBody(<<>>), OpenAIJsonBody(IncorrectKeyText), ElevenLabsJsonBody(ServerErrorText) }

HttpResponses(statuses, bodies) ==
    [kind : {"http"}, status : statuses, body : bodies]

OkResponses ==
    [kind : {"ok"}, bytes : Buffers]

FailResponses(messages) ==
    [kind : {"error"}, message : messages]

\* What a provider.synthesize call of the run can meet
Responses(p) ==
    IF p.name = "Local"
    THEN OkResponses \cup FailResponses({EspeakFailed, PowerShellStderr})
    ELSE OkResponses \cup HttpResponses({401, 500}, RunBodies) \cup FailResponses({SocketHangUp})

\* The message of the Error a provider rejects with
SynthesizeError(p, r) ==
    CASE r.kind = "error" -> r.message
      [] r.kind = "http" /\ p.name = "OpenAI" -> OpenAIErrorMessage(r.status, r.body)
      [] r.kind = "http" /\ p.name = "ElevenLabs" -> ElevenLabsErrorMessage(r.status, r.body)
      [] r.kind = "http" /\ p.name = "Azure" -> AzureErrorMessage(r.status, r.body)

(***************************************************************************)
(* readAloudCommand and synthesizeFromSelection (extension.ts)             *)
(***************************************************************************)
runVars ==
    <<pc, providerType, apiKey, attempt, token, message, shouldRetryAuth, result,
      calls, errorShown, offers, keyPrompts, retried, preCancelled, played, request>>

Cancelled ==
    <<"C","a","n","c","e","l","l","e","d">>

EloquentPrefix ==
    <<"E","l","o","q","u","e","n","t",":"," ">>

NoActiveEditor ==
    <<"N","o"," ","a","c","t","i","v","e"," ","e","d","i","t","o","r">>

PleaseSelectText ==
    <<"P","l","e","a","s","e"," ","s","e","l","e","c","t"," ","t","e","x","t"," ","t","o"," ","p","r","o","c","e","s","s">>

ExceedsMaximum(max) ==
    <<"S","e","l","e","c","t","e","d"," ","t","e","x","t"," ","e","x","c","e","e","d","s"," ","m","a","x","i","m","u","m"," ","o","f"," ">>
    \o IntToString(max) \o
    <<" ","c","h","a","r","a","c","t","e","r","s","."," ","Y","o","u"," ","c","a","n"," ","a","d","j","u","s","t"," ","t","h","i","s"," ","i","n"," ","s","e","t","t","i","n","g","s",".">>

WriteFailed ==
    <<"E","N","O","S","P","C",":"," ","n","o"," ","s","p","a","c","e"," ","l","e","f","t"," ","o","n"," ","d","e","v","i","c","e",","," ","w","r","i","t","e">>

\* The length check with >= for >
ExceedsLimit_Inclusive(len, max) ==
    len >= max

\* text.length > config.maxCharacters
ExceedsLimit(len, max) ==
    len > max

\* readAloudCommand from `try {` on, with the bytes synthesizeFromSelection returned;
\* a run that reaches play has shown no message before it
ReadAloudBody(bytes) ==
    \E t \in {now, Min(now + 1, MaxTime)} \ {0}, writeOk \in BOOLEAN,
       unlinkOk \in UnlinkOutcomes(tempFile, disk) :
        /\ play(bytes, sessions + 1, t, writeOk, unlinkOk)
        /\ statusBar' = writeOk
        /\ isPlaying' = writeOk
        /\ errorShown' = IF writeOk THEN <<>> ELSE EloquentPrefix \o WriteFailed

\* The command is invoked: synthesizeFromSelection up to its first suspension
InvokeReadAloud ==
    /\ pc \in {"idle", "done"}
    /\ sessions < MaxSessions
    /\ \E editor \in BOOLEAN, len \in 0..MaxTextLen :
        LET key == getProviderApiKey(settings, settings.provider)
            invalid == ~editor \/ len = 0 \/ ExceedsLimit(len, settings.maxCharacters)
        IN  /\ providerType' = settings.provider
            /\ attempt' = 0
            /\ token' = FALSE
            /\ message' = <<>>
            /\ shouldRetryAuth' = FALSE
            /\ result' = 0
            /\ calls' = <<>>
            /\ offers' = 0
            /\ keyPrompts' = <<>>
            /\ retried' = FALSE
            /\ preCancelled' = -1
            /\ played' = <<>>
            /\ request' = [editor |-> editor, len |-> len]
            /\ errorShown' =
                  IF ~editor THEN NoActiveEditor
                  ELSE IF len = 0 THEN PleaseSelectText
                  ELSE IF ExceedsLimit(len, settings.maxCharacters)
                       THEN ExceedsMaximum(settings.maxCharacters)
                  ELSE <<>>
            /\ apiKey' = IF invalid \/ settings.provider = "local" THEN "" ELSE key
            /\ pc' = IF invalid THEN "done"
                     ELSE IF settings.provider # "local" /\ ~Truthy(key) THEN "keyPrompt"
                     ELSE "progress"
    /\ UNCHANGED <<settings, response, rate, system, systemEnv, suppressProviderChangePrompt,
                   changeEvents, activeFlows, promptFlows>>
    /\ UNCHANGED indicatorVars
    /\ UNCHANGED playerVars

\* The input box of the first promptForApiKey resolves
AnswerKeyPrompt ==
    /\ pc = "keyPrompt"
    /\ \E key \in KeyInputs :
        LET entered == promptForApiKeyResult(providerType, key)
        IN  /\ settings' = promptForApiKeyStore(settings, providerType, key)
            /\ keyPrompts' = IF PromptSetting(providerType) = "" THEN keyPrompts
                              ELSE Append(keyPrompts, key)
            /\ IF ~Truthy(entered)
               THEN pc' = "done" /\ UNCHANGED apiKey
               ELSE pc' = "progress" /\ apiKey' = entered
    /\ UNCHANGED <<providerType, attempt, token, message, shouldRetryAuth, result, calls,
                   errorShown, offers, retried, preCancelled, played, request, response, rate, system, systemEnv, suppressProviderChangePrompt,
                   changeEvents, activeFlows, promptFlows>>
    /\ UNCHANGED indicatorVars
    /\ UNCHANGED playerVars

\* The progress callback without its cancellation check
CancelCheck_Skipped(requested) ==
    FALSE

\* `if (token.isCancellationRequested)` of the progress callback
CancelCheck(requested) ==
    requested

\* The withProgress callback runs, up to `await provider.synthesize`
ProgressCallback ==
    /\ pc = "progress"
    /\ \E requested \in BOOLEAN :
        LET provider == createProvider(providerType, apiKey)
        IN  /\ token' = requested
            /\ preCancelled' = IF requested THEN attempt ELSE preCancelled
            /\ IF CancelCheck(requested)
               THEN /\ message' = Cancelled
                    /\ pc' = "done"
                    /\ UNCHANGED calls
               ELSE /\ calls' = Append(calls, [key |-> provider.apiKey, attempt |-> attempt,
                                               bytes |-> 0, error |-> <<>>, auth |-> FALSE])
                    /\ pc' = "inflight"
                    /\ UNCHANGED message
    /\ UNCHANGED <<settings, providerType, apiKey, attempt, shouldRetryAuth, result,
                   errorShown, offers, keyPrompts, retried, played, request, response, rate, system, systemEnv, suppressProviderChangePrompt,
                   changeEvents, activeFlows, promptFlows>>
    /\ UNCHANGED indicatorVars
    /\ UNCHANGED playerVars

\* The user presses Cancel on the progress notification during the call
CancelInFlight ==
    /\ pc = "inflight"
    /\ ~token
    /\ token' = TRUE
    /\ UNCHANGED <<settings, pc, providerType, apiKey, attempt, message, shouldRetryAuth, result,
                   calls, errorShown, offers, keyPrompts, retried, preCancelled, played, request, response, rate, system, systemEnv, suppressProviderChangePrompt,
                   changeEvents, activeFlows, promptFlows>>
    /\ UNCHANGED indicatorVars
    /\ UNCHANGED playerVars

\* shouldRetryAuth without `attempt === 0`
FirstAttempt_Always(a) ==
    TRUE

\* `attempt === 0` of shouldRetryAuth
FirstAttempt(a) ==
    a = 0

\* shouldRetryAuth without the classification of the message
ShouldRetryAuth_AnyError(type, a, m) ==
    type # "local" /\ FirstAttempt(a)

\* shouldRetryAuth without `providerType !== 'local'`
ShouldRetryAuth_AnyProvider(type, a, m) ==
    FirstAttempt(a) /\ isAuthenticationError(m)

\* const shouldRetryAuth
ShouldRetryAuth(type, a, m) ==
    type # "local" /\ FirstAttempt(a) /\ isAuthenticationError(m)

\* `attempt < 2` of the retry loop
LoopContinues(a) ==
    a < 2

\* provider.synthesize resolves: synthesizeFromSelection returns the buffer and
\* readAloudCommand goes on to play it
SynthesizeResolves ==
    /\ pc = "inflight"
    /\ \E r \in Responses(createProvider(providerType, apiKey)) :
        /\ r.kind = "ok"
        /\ result' = r.bytes
        /\ calls' = [calls EXCEPT ![Len(calls)].bytes = r.bytes]
        /\ pc' = "done"
        /\ played' = Append(played, r.bytes)
        /\ ReadAloudBody(r.bytes)
    /\ UNCHANGED <<settings, providerType, apiKey, attempt, token, message, shouldRetryAuth,
                   offers, keyPrompts, retried, preCancelled, request, response, rate, system, systemEnv, suppressProviderChangePrompt,
                   changeEvents, activeFlows, promptFlows>>

\* provider.synthesize rejects: the catch block up to its first suspension
SynthesizeRejects ==
    /\ pc = "inflight"
    /\ \E r \in Responses(createProvider(providerType, apiKey)) :
        /\ r.kind # "ok"
        /\ LET m == SynthesizeError(createProvider(providerType, apiKey), r)
               retry == ShouldRetryAuth(providerType, attempt, m)
           IN  /\ message' = m
               /\ calls' = [calls EXCEPT ![Len(calls)].error = m,
                                         ![Len(calls)].auth = isAuthenticationError(m)]
               /\ IF m = Cancelled
                  THEN /\ pc' = "done"
                       /\ UNCHANGED <<shouldRetryAuth, offers, errorShown>>
                  ELSE /\ shouldRetryAuth' = retry
                       /\ IF retry
                          THEN /\ pc' = "offer"
                               /\ offers' = offers + 1
                               /\ UNCHANGED errorShown
                          ELSE /\ pc' = "done"
                               /\ errorShown' = EloquentPrefix \o m
                               /\ UNCHANGED offers
    /\ UNCHANGED <<settings, providerType, apiKey, attempt, token, result,
                   keyPrompts, retried, preCancelled, played, request, response, rate, system, systemEnv, suppressProviderChangePrompt,
                   changeEvents, activeFlows, promptFlows>>
    /\ UNCHANGED indicatorVars
    /\ UNCHANGED playerVars

\* "API key appears invalid. Enter a new key?" resolves
AnswerOffer ==
    /\ pc = "offer"
    /\ \E action \in {"Update Key", "Cancel", undefined} :
        IF action = "Update Key"
        THEN /\ pc' = "retryKeyPrompt"
             /\ UNCHANGED errorShown
        ELSE /\ pc' = "done"
             /\ errorShown' = EloquentPrefix \o message
    /\ UNCHANGED <<settings, providerType, apiKey, attempt, token, message, shouldRetryAuth, result,
                   calls, offers, keyPrompts, retried, preCancelled, played, request, response, rate, system, systemEnv, suppressProviderChangePrompt,
                   changeEvents, activeFlows, promptFlows>>
    /\ UNCHANGED indicatorVars
    /\ UNCHANGED playerVars

\* The retry without `apiKey = entered`
RetryKey_KeepOld(old, entered) ==
    old

\* `apiKey = entered; continue` of the retry
RetryKey(old, entered) ==
    entered

\* The input box of the promptForApiKey of the retry resolves
AnswerRetryKeyPrompt ==
    /\ pc = "retryKeyPrompt"
    /\ \E key \in KeyInputs :
        LET entered == promptForApiKeyResult(providerType, key)
        IN  /\ settings' = promptForApiKeyStore(settings, providerType, key)
            /\ keyPrompts' = Append(keyPrompts, key)
            /\ IF ~Truthy(entered)
               THEN /\ pc' = "done"
                    /\ UNCHANGED <<apiKey, attempt, retried>>
               ELSE /\ pc' = IF LoopContinues(attempt + 1) THEN "progress" ELSE "done"
                    /\ apiKey' = RetryKey(apiKey, entered)
                    /\ attempt' = attempt + 1
                    /\ retried' = TRUE
    /\ UNCHANGED <<providerType, token, message, shouldRetryAuth, result, calls,
                   errorShown, offers, preCancelled, played, request, response, rate, system, systemEnv, suppressProviderChangePrompt,
                   changeEvents, activeFlows, promptFlows>>
    /\ UNCHANGED indicatorVars
    /\ UNCHANGED playerVars

(***************************************************************************)
(* Rate transforms (azure.ts, local.ts)                                    *)
(***************************************************************************)
\* A rounding that takes halves away from zero
MathRound_HalfAwayFromZero(num, den) ==
    IF num >= 0
    THEN (2 * num + den) \div (2 * den)
    ELSE 0 - ((2 * (0 - num) + den) \div (2 * den))

\* Math.round(num / den) for den > 0: the nearest integer, halves toward +Infinity
MathRound(num, den) ==
    (2 * num + den) \div (2 * den)

\* `${n}` for any integer
IntegerToString(n) ==
    IF n < 0 THEN <<"-">> \o IntToString(0 - n) ELSE IntToString(n)

\* The normalized speeds 0.25 .. 4.0, in units of 1 / SpeedScale
Speeds ==
    ((SpeedScale + 3) \div 4) .. (4 * SpeedScale)

\* Math.round((speed - 1) * 100) of AzureProvider.speedToRate
AzurePercent(n) ==
    MathRound(100 * (n - SpeedScale), SpeedScale)

\* AzureProvider.speedToRate
AzureSpeedToRate(n) ==
    LET percent == AzurePercent(n)
    IN  IF percent >= 0
        THEN <<"+">> \o IntegerToString(percent) \o <<"%">>
        ELSE IntegerToString(percent) \o <<"%">>

\* speedToRate whose upper branch is taken about speed 2
SapiSpeedToRate_Offset(n) ==
    IF n <= SpeedScale
    THEN MathRound(10 * (n - SpeedScale), SpeedScale)
    ELSE MathRound(333 * (n - 2 * SpeedScale), 100 * SpeedScale)

\* LocalTTSProvider.speedToRate (Windows SAPI)
SapiSpeedToRate(n) ==
    IF n <= SpeedScale
    THEN MathRound(10 * (n - SpeedScale), SpeedScale)
    ELSE MathRound(333 * (n - SpeedScale), 100 * SpeedScale)

\* Math.round(175 * options.speed) of synthesizeMac / synthesizeLinux
WordsPerMinute(n) ==
    MathRound(175 * n, SpeedScale)

NoRate ==
    [speed |-> 0]

(***************************************************************************)
(* SystemAudioPlayer (player/hybrid.ts)                                    *)
(***************************************************************************)
\* A SystemAudioPlayer after its constructor
NoSystem ==
    [currentProcess |-> 0, tempFile |-> 0, onDidStopCallback |-> 0]

\* alive: the spawned processes whose `close`/`error` event is still to come;
\* stops[s]: the invocations of the onStop of session s (up to 2)
NoSystemEnv ==
    [alive |-> {}, disk |-> {}, now |-> 0, sessions |-> 0,
     stops |-> [s \in 1..MaxSessions |-> 0]]

\* SystemAudioPlayer.cleanup
SystemCleanup(sys, dk, unlinkOk) ==
    IF sys.tempFile # 0 /\ sys.tempFile \in dk
    THEN [system |-> [sys EXCEPT !.tempFile = 0, !.currentProcess = 0],
          disk |-> IF unlinkOk THEN dk \ {sys.tempFile} ELSE dk]
    ELSE [system |-> [sys EXCEPT !.currentProcess = 0], disk |-> dk]

\* this.onDidStopCallback?.()
SystemInvokeCallback(sys, stops) ==
    IF sys.onDidStopCallback = 0 THEN stops
    ELSE [stops EXCEPT ![sys.onDidStopCallback] = Min(@ + 1, 2)]

\* SystemAudioPlayer.stop: the killed process stays alive until its `close`
\* event is delivered
SystemStopBody(sys, env, unlinkOk) ==
    LET c == SystemCleanup([sys EXCEPT !.currentProcess = 0], env.disk, unlinkOk)
    IN  [system |-> c.system,
         env |-> [env EXCEPT !.disk = c.disk,
                             !.stops = SystemInvokeCallback(sys, env.stops)]]

(***************************************************************************)
(* The orchestrator: runs of readAloud                                     *)
(***************************************************************************)
vars ==
    <<settings, pc, providerType, apiKey, attempt, token, message, shouldRetryAuth, result,
      calls, errorShown, offers, keyPrompts, retried, preCancelled, played, request, response,
      rate, system, systemEnv, suppressProviderChangePrompt, changeEvents, activeFlows,
      promptFlows, isPlaying, statusBar, panel, tempFile, onDidStopCallback, disk, now, surface,
      toHost, toSurface, saveDialog, sessions, onStopCount, lastEvent, unlinkFailed>>

SettingsChoices ==
    { [provider |-> p, openaiApiKey |-> k, elevenlabsApiKey |-> k, azureApiKey |-> k,
       maxCharacters |-> m] : p \in ProviderValues, k \in {"", "k1"}, m \in {1, MaxTextLen - 1} }

NoResponse ==
    [kind |-> "none"]

InitRun ==
    /\ pc = "idle"
    /\ providerType = "openai"
    /\ apiKey = ""
    /\ attempt = 0
    /\ token = FALSE
    /\ message = <<>>
    /\ shouldRetryAuth = FALSE
    /\ result = 0
    /\ calls = <<>>
    /\ errorShown = <<>>
    /\ offers = 0
    /\ keyPrompts = <<>>
    /\ retried = FALSE
    /\ preCancelled = -1
    /\ played = <<>>
    /\ request = [editor |-> FALSE, len |-> 0]
    /\ response = NoResponse
    /\ rate = NoRate
    /\ suppressProviderChangePrompt = FALSE
    /\ changeEvents = 0
    /\ activeFlows = <<>>
    /\ promptFlows = <<>>
    /\ system = NoSystem
    /\ systemEnv = NoSystemEnv

InitPlayer ==
    /\ isPlaying = FALSE
    /\ statusBar = FALSE
    /\ panel = FALSE
    /\ tempFile = 0
    /\ onDidStopCallback = 0
    /\ disk = {}
    /\ now = 0
    /\ surface = NoDocument
    /\ toHost = <<>>
    /\ toSurface = <<>>
    /\ saveDialog = FALSE
    /\ sessions = 0
    /\ onStopCount = 0
    /\ lastEvent = "none"
    /\ unlinkFailed = FALSE

Init ==
    /\ settings \in SettingsChoices
    /\ InitRun
    /\ InitPlayer

Next ==
    \/ InvokeReadAloud
    \/ AnswerKeyPrompt
    \/ ProgressCallback
    \/ CancelInFlight
    \/ SynthesizeResolves
    \/ SynthesizeRejects
    \/ AnswerOffer
    \/ AnswerRetryKeyPrompt

Spec ==
    Init /\ [][Next]_vars

(***************************************************************************)
(* The classifier on its own: one failed call of a cloud provider          *)
(***************************************************************************)
CloudProviders ==
    Providers \ {"local"}

\* toUpperCase of the first character only
Capitalize(s) ==
    [i \in 1..Len(s) |-> IF i = 1 THEN UpperChar(s[i]) ELSE s[i]]

CaseVariants(phrase) ==
    {phrase, toUpperCase(phrase), Capitalize(phrase)}

LeadingText ==
    <<"E","r","r","o","r",":"," ">>

TrailingText ==
    <<" ","(","c","h","e","c","k"," ","y","o","u","r"," ","s","e","t","t","i","n","g","s",")">>

\* Messages that carry a marker phrase, in some letter case, at the start,
\* the end or the middle of the text
MarkerMessages ==
    { pre \o v \o post :
        v \in UNION { CaseVariants(phrase) : phrase \in PhraseMarkers },
        pre \in {<<>>, LeadingText},
        post \in {<<>>, TrailingText} }

UpperCaseMarkerMessages ==
    { LeadingText \o toUpperCase(phrase) \o TrailingText : phrase \in PhraseMarkers }

ConnectTimedOut ==
    <<"c","o","n","n","e","c","t"," ","E","T","I","M","E","D","O","U","T">>

QuotaText ==
    <<"Y","o","u"," ","e","x","c","e","e","d","e","d"," ","y","o","u","r"," ","c","u","r","r","e","n","t"," ","q","u","o","t","a">>

\* Messages of failures that are not authentication failures
GenericTexts ==
    {ServerErrorText, SocketHangUp, ConnectTimedOut, QuotaText}

\* Messages of failures that are not authentication failures and carry the
\* digits 401 or 403 in a number
QuotaDigitsText ==
    <<"Q","u","o","t","a"," ","o","f"," ","4","0","1","0","0"," ","c","h","a","r","a","c","t","e","r","s"," ","e","x","c","e","e","d","e","d">>

ConnectRefused ==
    <<"c","o","n","n","e","c","t"," ","E","C","O","N","N","R","E","F","U","S","E","D"," ","1","2","7",".","0",".","0",".","1",":","4","0","3","0">>

DigitTexts ==
    {QuotaDigitsText, ConnectRefused}

ClassifyBodies ==
    {TextBody(<<>>), TextBody(QuotaDigitsText), EmptyJsonBody}
    \cup { OpenAIJsonBody(m) : m \in MarkerMessages \cup GenericTexts \cup {QuotaDigitsText} }
    \cup { ElevenLabsJsonBody(m) : m \in MarkerMessages \cup GenericTexts \cup {QuotaDigitsText} }

ClassifyResponses ==
    HttpResponses({401, 403, 429, 500}, ClassifyBodies)
    \cup FailResponses(MarkerMessages \cup GenericTexts \cup {ConnectRefused})

\* The messages the providers make of a bare HTTP status
StatusMessages(status) ==
    { ApiErrorPrefix \o IntToString(status),
      ElevenLabsErrorPrefix \o IntToString(status),
      AzureErrorPrefix \o IntToString(status) \o Dash }

InitClassify ==
    /\ settings \in { st \in SettingsChoices : st.provider \in CloudProviders /\ st.openaiApiKey = "k1"
                                                /\ st.maxCharacters = 1 }
    /\ InitRun
    /\ InitPlayer

\* A call of the selected provider fails with response r; the catch block classifies it
Classify ==
    /\ pc = "idle"
    /\ \E r \in ClassifyResponses :
        LET m == SynthesizeError(createProvider(settings.provider, "k1"), r)
        IN  /\ response' = r
            /\ providerType' = settings.provider
            /\ message' = m
            /\ shouldRetryAuth' = ShouldRetryAuth(settings.provider, 0, m)
            /\ pc' = "classified"
    /\ UNCHANGED <<settings, apiKey, attempt, token, result, calls, errorShown, offers,
                   keyPrompts, retried, preCancelled, played, request, rate, system, systemEnv, suppressProviderChangePrompt,
                   changeEvents, activeFlows, promptFlows>>
    /\ UNCHANGED indicatorVars
    /\ UNCHANGED playerVars

NextClassify ==
    Classify

SpecClassify ==
    InitClassify /\ [][NextClassify]_vars

(***************************************************************************)
(* The rate transforms applied to a speed                                  *)
(***************************************************************************)
InitSpeed ==
    /\ settings \in { st \in SettingsChoices : st.provider = "local" /\ st.openaiApiKey = ""
                                                /\ st.maxCharacters = 1 }
    /\ InitRun
    /\ InitPlayer

\* A synthesize call of the Azure or the local provider turns options.speed
\* into the backend's rate
SpeedToRate ==
    /\ pc = "idle"
    /\ \E n \in Speeds :
        rate' = [speed |-> n, azure |-> AzureSpeedToRate(n), sapi |-> SapiSpeedToRate(n),
                 wpm |-> WordsPerMinute(n)]
    /\ UNCHANGED <<settings, response, system, systemEnv, suppressProviderChangePrompt,
                   changeEvents, activeFlows, promptFlows>>
    /\ UNCHANGED runVars
    /\ UNCHANGED indicatorVars
    /\ UNCHANGED playerVars

NextSpeed ==
    SpeedToRate

SpecSpeed ==
    InitSpeed /\ [][NextSpeed]_vars

(***************************************************************************)
(* The player in use: commands, the panel and the webview surface          *)
(***************************************************************************)
Post(queue, m) ==
    Append(queue, m)

\* readAloudCommand once synthesizeFromSelection has returned a buffer; the
\* player writes the buffer to the temp file and never reads it back, so one
\* buffer stands for all of them
ReadAloud ==
    /\ pc = "idle"
    /\ sessions < MaxSessions
    /\ ReadAloudBody(1)
    /\ UNCHANGED <<settings, pc, providerType, apiKey, attempt, token, message, shouldRetryAuth,
                   result, calls, offers, keyPrompts, retried, preCancelled, played, request,
                   response, rate, system, systemEnv, suppressProviderChangePrompt,
                   changeEvents, activeFlows, promptFlows>>

\* stop that posts whether or not a panel exists
stop_AlwaysPosts(unlinkOk) ==
    LET c == cleanup(tempFile, disk, unlinkOk)
    IN  /\ toSurface' = Post(toSurface, "stop")
        /\ tempFile' = c.tempFile
        /\ disk' = c.disk
        /\ unlinkFailed' = (unlinkFailed \/ c.threw)

\* HybridAudioPlayer.stop, as the fields it leaves
stop(unlinkOk) ==
    LET c == cleanup(tempFile, disk, unlinkOk)
    IN  /\ toSurface' = IF panel THEN Post(toSurface, "stop") ELSE toSurface
        /\ tempFile' = c.tempFile
        /\ disk' = c.disk
        /\ unlinkFailed' = (unlinkFailed \/ c.threw)

\* stopCommand
StopCommand ==
    /\ pc = "idle"
    /\ panel => Len(toSurface) < MaxQueue
    /\ \E unlinkOk \in UnlinkOutcomes(tempFile, disk) : stop(unlinkOk)
    /\ statusBar' = FALSE
    /\ isPlaying' = FALSE
    /\ lastEvent' = "stop"
    /\ UNCHANGED <<panel, onDidStopCallback, now, surface, toHost, saveDialog, sessions, onStopCount>>
    /\ UNCHANGED <<settings, response, rate, system, systemEnv, suppressProviderChangePrompt,
                   changeEvents, activeFlows, promptFlows>>
    /\ UNCHANGED runVars

\* HybridAudioPlayer.pause
Pause ==
    /\ pc = "idle"
    /\ panel => Len(toSurface) < MaxQueue
    /\ toSurface' = IF panel THEN Post(toSurface, "pause") ELSE toSurface
    /\ lastEvent' = "other"
    /\ UNCHANGED <<panel, tempFile, onDidStopCallback, disk, now, surface, toHost, saveDialog,
                   sessions, onStopCount, unlinkFailed>>
    /\ UNCHANGED indicatorVars
    /\ UNCHANGED <<settings, response, rate, system, systemEnv, suppressProviderChangePrompt,
                   changeEvents, activeFlows, promptFlows>>
    /\ UNCHANGED runVars

\* HybridAudioPlayer.resume
Resume ==
    /\ pc = "idle"
    /\ panel => Len(toSurface) < MaxQueue
    /\ toSurface' = IF panel THEN Post(toSurface, "resume") ELSE toSurface
    /\ lastEvent' = "other"
    /\ UNCHANGED <<panel, tempFile, onDidStopCallback, disk, now, surface, toHost, saveDialog,
                   sessions, onStopCount, unlinkFailed>>
    /\ UNCHANGED indicatorVars
    /\ UNCHANGED <<settings, response, rate, system, systemEnv, suppressProviderChangePrompt,
                   changeEvents, activeFlows, promptFlows>>
    /\ UNCHANGED runVars

\* A dispose handler that keeps the reference to the disposed panel
OnDidDispose_KeepsPanel(tf, dk, unlinkOk) ==
    LET c == cleanup(tf, dk, unlinkOk)
    IN  /\ tempFile' = c.tempFile
        /\ disk' = c.disk
        /\ unlinkFailed' = (unlinkFailed \/ c.threw)
        /\ panel' = panel
        /\ InvokeOnDidStopCallback
        /\ surface' = NoDocument
        /\ toHost' = <<>>
        /\ toSurface' = <<>>

\* The onDidDispose handler of the panel, run on the fields tf, dk
OnDidDispose(tf, dk, unlinkOk) ==
    LET c == cleanup(tf, dk, unlinkOk)
    IN  /\ tempFile' = c.tempFile
        /\ disk' = c.disk
        /\ unlinkFailed' = (unlinkFailed \/ c.threw)
        /\ panel' = FALSE
        /\ InvokeOnDidStopCallback
        /\ surface' = NoDocument
        /\ toHost' = <<>>
        /\ toSurface' = <<>>

\* The user closes the panel
PanelClosed ==
    /\ panel
    /\ \E unlinkOk \in UnlinkOutcomes(tempFile, disk) : OnDidDispose(tempFile, disk, unlinkOk)
    /\ lastEvent' = "panelClosed"
    /\ UNCHANGED <<onDidStopCallback, now, saveDialog, sessions>>
    /\ UNCHANGED <<settings, response, rate, system, systemEnv, suppressProviderChangePrompt,
                   changeEvents, activeFlows, promptFlows>>
    /\ UNCHANGED runVars

\* deactivate: HybridAudioPlayer.dispose is stop(), then panel.dispose() runs
\* the onDidDispose handler, then this.panel = undefined
Dispose ==
    /\ pc = "idle"
    /\ pc' = "deactivated"
    /\ \E unlinkOk \in UnlinkOutcomes(tempFile, disk) :
        LET c == cleanup(tempFile, disk, unlinkOk)
        IN  IF panel
            THEN OnDidDispose(c.tempFile, c.disk, TRUE)
                 /\ unlinkFailed' = (unlinkFailed \/ c.threw)
            ELSE /\ tempFile' = c.tempFile
                 /\ disk' = c.disk
                 /\ unlinkFailed' = (unlinkFailed \/ c.threw)
                 /\ UNCHANGED <<panel, surface, toHost, toSurface, onStopCount>>
                 /\ UNCHANGED indicatorVars
    /\ lastEvent' = "dispose"
    /\ UNCHANGED <<onDidStopCallback, now, saveDialog, sessions>>
    /\ UNCHANGED <<settings, response, rate, system, systemEnv, suppressProviderChangePrompt,
                   changeEvents, activeFlows, promptFlows>>
    /\ UNCHANGED <<providerType, apiKey, attempt, token, message, shouldRetryAuth, result,
                   calls, errorShown, offers, keyPrompts, retried, preCancelled, played, request>>

\* The onDidReceiveMessage handler of the panel's webview, up to its first suspension
HostReceive ==
    /\ panel
    /\ toHost # <<>>
    /\ LET m == Head(toHost)
       IN  /\ toHost' = Tail(toHost)
           /\ lastEvent' = CASE m.command \in {"ended", "stopped"} -> m.command
                              [] m.command = "download" /\ ~(tempFile # 0 /\ tempFile \in disk) ->
                                    "download"
                              [] OTHER -> "other"
           /\ CASE m.command \in {"ended", "stopped"} ->
                     /\ InvokeOnDidStopCallback
                     /\ UNCHANGED <<toSurface, saveDialog>>
                [] m.command = "ready" ->
                     /\ Len(toSurface) < MaxQueue
                     /\ toSurface' = Post(toSurface, "play")
                     /\ UNCHANGED <<saveDialog, onStopCount>>
                     /\ UNCHANGED indicatorVars
                [] m.command = "download" ->
                     /\ saveDialog' = (saveDialog \/ (tempFile # 0 /\ tempFile \in disk))
                     /\ UNCHANGED <<toSurface, onStopCount>>
                     /\ UNCHANGED indicatorVars
    /\ UNCHANGED <<panel, tempFile, onDidStopCallback, disk, now, surface, sessions, unlinkFailed>>
    /\ UNCHANGED <<settings, response, rate, system, systemEnv, suppressProviderChangePrompt,
                   changeEvents, activeFlows, promptFlows>>
    /\ UNCHANGED runVars

\* A save that moves the temp file to the target
DiskAfterSave_Move(dk, tf) ==
    dk \ {tf}

\* readFileSync(this.tempFile) and workspace.fs.writeFile(targetUri, ...): the
\* temp files on disk after the copy
DiskAfterSave(dk, tf) ==
    dk

\* downloadCurrentAudio from the resolution of showSaveDialog on;
\* chosen = FALSE: the dialog was dismissed; whether writeFile then resolves
\* or rejects shows only in the message displayed
SaveDialogResolves ==
    /\ saveDialog
    /\ saveDialog' = FALSE
    /\ \E chosen \in BOOLEAN :
        LET readable == tempFile # 0 /\ tempFile \in disk
        IN  /\ lastEvent' = "download"
            /\ disk' = IF chosen /\ readable THEN DiskAfterSave(disk, tempFile) ELSE disk
    /\ UNCHANGED <<panel, tempFile, onDidStopCallback, now, surface, toHost, toSurface,
                   sessions, onStopCount, unlinkFailed>>
    /\ UNCHANGED indicatorVars
    /\ UNCHANGED <<settings, response, rate, system, systemEnv, suppressProviderChangePrompt,
                   changeEvents, activeFlows, promptFlows>>
    /\ UNCHANGED runVars

hostFrame ==
    /\ UNCHANGED <<panel, tempFile, onDidStopCallback, disk, now, saveDialog, sessions,
                   onStopCount, lastEvent, unlinkFailed>>
    /\ UNCHANGED indicatorVars
    /\ UNCHANGED <<settings, response, rate, system, systemEnv, suppressProviderChangePrompt,
                   changeEvents, activeFlows, promptFlows>>
    /\ UNCHANGED runVars

\* The outcomes of audio.play() in playAudio: it can start only loaded audio
PlayOutcomes(doc) ==
    IF doc.phase = "ready" THEN BOOLEAN ELSE {FALSE}

\* playAudio of the script; started = FALSE: audio.play() rejects
playAudio(doc, started) ==
    IF doc.phase = "ready" /\ started THEN [doc EXCEPT !.playing = TRUE] ELSE doc

\* audio.onloadedmetadata
LoadedMetadata ==
    /\ surface.phase = "loading"
    /\ surface.src \in disk
    /\ Len(toHost) < MaxQueue
    /\ surface' = [surface EXCEPT !.phase = "ready"]
    /\ toHost' = Post(toHost, [command |-> "ready", session |-> surface.session])
    /\ UNCHANGED toSurface
    /\ hostFrame

\* audio.onerror
LoadError ==
    /\ surface.phase = "loading"
    /\ surface.src \notin disk
    /\ surface' = [surface EXCEPT !.phase = "error"]
    /\ UNCHANGED <<toHost, toSurface>>
    /\ hostFrame

\* The message listener of the script
SurfaceReceive ==
    /\ surface.session # 0
    /\ toSurface # <<>>
    /\ toSurface' = Tail(toSurface)
    /\ IF Head(toSurface) \in {"play", "resume"}
       THEN \E started \in PlayOutcomes(surface) : surface' = playAudio(surface, started)
       ELSE surface' = [surface EXCEPT !.playing = FALSE]
    /\ UNCHANGED toHost
    /\ hostFrame

\* audio.onended
AudioEnded ==
    /\ surface.playing
    /\ Len(toHost) < MaxQueue
    /\ surface' = [surface EXCEPT !.playing = FALSE]
    /\ toHost' = Post(toHost, [command |-> "ended", session |-> surface.session])
    /\ UNCHANGED toSurface
    /\ hostFrame

\* stopBtn.onclick
ClickStop ==
    /\ surface.session # 0
    /\ Len(toHost) < MaxQueue
    /\ surface' = [surface EXCEPT !.playing = FALSE]
    /\ toHost' = Post(toHost, [command |-> "stopped", session |-> surface.session])
    /\ UNCHANGED toSurface
    /\ hostFrame

\* playPauseBtn.onclick
ClickPlayPause ==
    /\ surface.session # 0
    /\ IF surface.playing
       THEN surface' = [surface EXCEPT !.playing = FALSE]
       ELSE \E started \in PlayOutcomes(surface) : surface' = playAudio(surface, started)
    /\ UNCHANGED <<toHost, toSurface>>
    /\ hostFrame

\* downloadBtn.onclick; saveDialog is a flag, so one request is outstanding at a time
ClickDownload ==
    /\ surface.session # 0
    /\ ~saveDialog
    /\ \A i \in 1..Len(toHost) : toHost[i].command # "download"
    /\ Len(toHost) < MaxQueue
    /\ toHost' = Post(toHost, [command |-> "download", session |-> surface.session])
    /\ UNCHANGED <<surface, toSurface>>
    /\ hostFrame

InitPlayerSpec ==
    /\ settings = [provider |-> "openai", openaiApiKey |-> "k1", elevenlabsApiKey |-> "k1",
                   azureApiKey |-> "k1", maxCharacters |-> 1]
    /\ InitRun
    /\ InitPlayer

NextPlayer ==
    \/ ReadAloud
    \/ StopCommand
    \/ Pause
    \/ Resume
    \/ PanelClosed
    \/ Dispose
    \/ HostReceive
    \/ SaveDialogResolves
    \/ LoadedMetadata
    \/ LoadError
    \/ SurfaceReceive
    \/ AudioEnded
    \/ ClickStop
    \/ ClickPlayPause
    \/ ClickDownload

SpecPlayer ==
    InitPlayerSpec /\ [][NextPlayer]_vars

(***************************************************************************)
(* Properties of the orchestrator                                          *)
(***************************************************************************)
ValidationTexts ==
    {NoActiveEditor, PleaseSelectText} \cup { ExceedsMaximum(m) : m \in 1..MaxTextLen }

RequestValid ==
    request.editor /\ request.len >= 1 /\ request.len <= settings.maxCharacters

\* The run took the auth-retry path: attempt 1 failed with an authentication
\* failure and the user entered a new key
AuthRetryTaken ==
    /\ retried
    /\ Len(calls) >= 1
    /\ calls[1].error # <<>>
    /\ calls[1].auth
    /\ keyPrompts # <<>>
    /\ Truthy(keyPrompts[Len(keyPrompts)])

\* C1 as stated: a finished run on a valid selection has made at most one
\* synthesize call, unless attempt 1 failed with an authentication failure and
\* the user supplied a new key, in which case it has made exactly two.
C1_ExactlyTwoOnRetry ==
    (pc = "done" /\ RequestValid) =>
        /\ Len(calls) <= 2
        /\ IF AuthRetryTaken THEN Len(calls) = 2 ELSE Len(calls) <= 1

\* C1 amended: never more than two calls; two calls only on the auth-retry
\* path; a finished run on the auth-retry path has made exactly two calls,
\* unless the progress callback of attempt 2 found cancellation requested, in
\* which case it has made one.
C1_CallBudget ==
    /\ Len(calls) <= 2
    /\ retried => AuthRetryTaken
    /\ ~retried => Len(calls) <= 1
    /\ Len(calls) = 2 => AuthRetryTaken
    /\ (pc = "done" /\ retried) => Len(calls) = (IF preCancelled = 1 THEN 1 ELSE 2)

C1_Witness ==
    pc = "done" /\ RequestValid /\ AuthRetryTaken /\ Len(calls) = 2

\* C2: when attempt 1 fails with an authentication failure, the user enters a
\* new key and attempt 2 succeeds, attempt 2 is issued with the key just
\* entered and the run returns the bytes attempt 2 produced.
C2_RetryUsesNewKey ==
    (AuthRetryTaken /\ Len(calls) = 2) =>
        /\ calls[2].key = keyPrompts[Len(keyPrompts)]
        /\ calls[2].attempt = 1
        /\ (pc = "done" /\ calls[2].bytes # 0) =>
              /\ result = calls[2].bytes
              /\ played = <<calls[2].bytes>>

C2_Witness ==
    /\ pc = "done"
    /\ AuthRetryTaken
    /\ Len(calls) = 2
    /\ calls[2].bytes # 0
    /\ calls[2].key # calls[1].key
    /\ result = calls[2].bytes

\* The last synthesize call failed, and the failure is not an authentication
\* failure or it is the failure of the second attempt
TerminalFailure ==
    /\ calls # <<>>
    /\ calls[Len(calls)].error # <<>>
    /\ \/ ~calls[Len(calls)].auth
       \/ calls[Len(calls)].attempt = 1

\* C3: a synthesis failure that is not an authentication failure, or that is
\* the failure of the second attempt, ends the run: no further synthesize
\* call, no credential prompt after it, and the underlying message is shown.
C3_TerminalFailure ==
    TerminalFailure =>
        /\ pc = "done"
        /\ result = 0
        /\ errorShown = EloquentPrefix \o calls[Len(calls)].error
        /\ offers = calls[Len(calls)].attempt
        /\ Len(calls) = calls[Len(calls)].attempt + 1
        /\ played = <<>>

C3_Witness ==
    /\ TerminalFailure
    /\ Len(calls) = 2
    /\ calls[2].auth
    /\ errorShown = EloquentPrefix \o calls[2].error

C5_Validation ==
    pc # "idle" =>
        /\ (~request.editor \/ request.len = 0 \/ request.len > settings.maxCharacters) =>
              /\ pc = "done"
              /\ errorShown \in ValidationTexts
              /\ calls = <<>>
              /\ keyPrompts = <<>>
              /\ offers = 0
              /\ result = 0
              /\ played = <<>>
        /\ RequestValid => errorShown \notin ValidationTexts

C5_Witness ==
    /\ pc = "done"
    /\ request.editor
    /\ request.len = settings.maxCharacters + 1
    /\ errorShown = ExceedsMaximum(settings.maxCharacters)
    /\ calls = <<>>

\* C6: isAuthenticationError is true of every message that carries a marker
\* phrase in any letter case and of the message of an HTTP 401/403 failure,
\* and false of a generic 500 or timeout message.
C6_Classification ==
    pc = "classified" =>
        /\ message \in MarkerMessages => shouldRetryAuth
        /\ message \in StatusMessages(401) \cup StatusMessages(403) => shouldRetryAuth
        /\ message \in GenericTexts \cup StatusMessages(500) => ~shouldRetryAuth

C6_Witness ==
    pc = "classified" /\ message \in UpperCaseMarkerMessages /\ shouldRetryAuth

(***************************************************************************)
(* Properties of the player                                                *)
(***************************************************************************)
\* C7 as stated: after two calls of play in succession that both return,
\* the only temp file on disk is the second call's and the registered
\* callback is the second call's.
C7_OneFileAfterSecondPlay ==
    lastEvent = "play2" =>
        /\ disk = {tempFile}
        /\ onDidStopCallback = sessions

\* C7: after two calls of play in succession that both return, and with no
\* unlinkSync having thrown, the only temp file on disk is the second
\* call's; the registered callback is the second call's in any case.
C7_OneFileAfterSecondPlayUnlinked ==
    lastEvent = "play2" =>
        /\ ~unlinkFailed => disk = {tempFile}
        /\ tempFile \in disk
        /\ onDidStopCallback = sessions

C7_Witness ==
    /\ lastEvent = "play2"
    /\ ~unlinkFailed
    /\ sessions = 2
    /\ onDidStopCallback = 2
    /\ tempFile = 2
    /\ disk = {2}

\* C8: while no unlinkSync has thrown, at most one temp file is on disk and
\* it is the one the player references; a play whose write throws has
\* already deleted the previous session's file.
C8_AtMostOneFile ==
    ~unlinkFailed =>
        /\ Cardinality(disk) <= 1
        /\ disk \subseteq {tempFile}
        /\ lastEvent = "playThrew" => disk = {}

C8_Witness ==
    /\ lastEvent = "playThrew"
    /\ ~unlinkFailed
    /\ sessions = 2
    /\ panel
    /\ surface.session = 1
    /\ surface.phase = "loading"
    /\ toSurface = <<>>
    /\ tempFile = 2
    /\ disk = {}

EndedOrStoppedHandled ==
    /\ HostReceive
    /\ Head(toHost).command \in {"ended", "stopped"}

C10_OnStopAtMostOnce ==
    onStopCount <= 1

\* C11 as stated: stop() posts `stop` exactly when a panel exists, leaves
\* no temp file referenced or on disk, and invokes the registered callback.
C11_StopInvokesOnStop ==
    [][StopCommand =>
        /\ toSurface' = IF panel THEN Append(toSurface, "stop") ELSE toSurface
        /\ tempFile' = 0
        /\ disk' = {}
        /\ onDidStopCallback # 0 => onStopCount' = Min(onStopCount + 1, 2)]_vars

\* C11: stop() posts `stop` exactly when a panel exists and runs cleanup:
\* a referenced file that exists is dereferenced, and is off the disk
\* unless an unlinkSync threw; stop() does not invoke the registered
\* callback; stopCommand itself sets the indicators idle.
C11_StopPostsAndCleansUp ==
    [][StopCommand =>
        /\ toSurface' = IF panel THEN Append(toSurface, "stop") ELSE toSurface
        /\ tempFile' = 0 \/ tempFile' \notin disk'
        /\ ~unlinkFailed' => disk' = {}
        /\ onStopCount' = onStopCount
        /\ onDidStopCallback' = onDidStopCallback
        /\ ~statusBar'
        /\ ~isPlaying']_vars

C11_Witness ==
    /\ lastEvent = "stop"
    /\ panel
    /\ toSurface = <<"stop">>
    /\ tempFile = 0
    /\ disk = {}
    /\ onDidStopCallback = 1
    /\ onStopCount = 0
    /\ ~statusBar

playerFields ==
    <<panel, tempFile, onDidStopCallback, disk, unlinkFailed, onStopCount>>

C13_PauseResumeIdleNoMessage ==
    [][((Pause \/ Resume) /\ (sessions = 0 \/ lastEvent \in {"stop", "ended", "stopped"}))
        => toSurface' = toSurface]_vars

ReadyHandled ==
    /\ HostReceive
    /\ Head(toHost).command = "ready"

\* C14 as stated: the host posts `play` for a `ready` only when the message
\* comes from the current session and that session has not been stopped.
C14_PlayOnlyForCurrentReady ==
    [][ReadyHandled =>
        \/ toSurface' = toSurface
        \/ /\ Head(toHost).session = sessions
           /\ tempFile \in disk]_vars

C16_NoStalePathAfterWriteFailure ==
    lastEvent = "playThrew" =>
        /\ errorShown = EloquentPrefix \o WriteFailed
        /\ tempFile = 0
        /\ onDidStopCallback # sessions

(***************************************************************************)
(* Properties of the orchestrator, continued                               *)
(***************************************************************************)
\* C17 as stated: when cancellation was requested while the synthesize call
\* was in flight, the run ends with the cancelled result and plays nothing.
C17_InFlightCancelDiscards ==
    (pc = "done" /\ token /\ preCancelled = -1) =>
        /\ result = 0
        /\ played = <<>>

(***************************************************************************)
(* Properties of the rate transforms                                       *)
(***************************************************************************)
\* C18: each rate transform is non-decreasing in the speed over 0.25 .. 4.0
\* and maps speed 1.0 to +0%, 0 and 175.
C18_RateMonotone ==
    rate # NoRate =>
        /\ \A m \in Speeds :
              m >= rate.speed =>
                  /\ AzurePercent(m) >= AzurePercent(rate.speed)
                  /\ SapiSpeedToRate(m) >= rate.sapi
                  /\ WordsPerMinute(m) >= rate.wpm
        /\ rate.speed = SpeedScale =>
              /\ rate.azure = <<"+", "0", "%">>
              /\ rate.sapi = 0
              /\ rate.wpm = 175

C18_Witness ==
    /\ rate # NoRate
    /\ rate.speed = SpeedScale
    /\ rate.azure = <<"+", "0", "%">>
    /\ rate.sapi = 0
    /\ rate.wpm = 175

\* C19: a run for a cloud provider with no stored key is at the key prompt
\* before any synthesize call; when that prompt is cancelled or left empty
\* the run ends with undefined, no synthesize call, no error message and no
\* playback; every synthesize call of a cloud provider carries a key.
C19_PromptBeforeSynthesis ==
    /\ pc = "keyPrompt" => (calls = <<>> /\ keyPrompts = <<>>)
    /\ (pc # "idle" /\ RequestValid /\ providerType \in CloudProviders
            /\ getProviderApiKey(settings, providerType) \in {"", undefined}) =>
          \/ pc = "keyPrompt"
          \/ /\ pc = "done"
             /\ Len(keyPrompts) = 1
             /\ keyPrompts[1] \in {"", undefined}
             /\ calls = <<>>
             /\ result = 0
             /\ errorShown = <<>>
             /\ played = <<>>
    /\ (calls # <<>> /\ providerType # "local") => calls[1].key \notin {"", undefined}

C19_Witness ==
    /\ pc = "done"
    /\ RequestValid
    /\ providerType # "local"
    /\ keyPrompts = <<undefined>>
    /\ offers = 0
    /\ calls = <<>>
    /\ result = 0
    /\ errorShown = <<>>

\* C20 as stated: when the first attempt failed with an authentication
\* failure and no new key was obtained, the run ends without a second
\* synthesize call and with the underlying error shown.
C20_NoNewKeySurfacesError ==
    (pc = "done" /\ calls # <<>> /\ calls[1].auth /\ ~retried) =>
        /\ Len(calls) = 1
        /\ result = 0
        /\ errorShown = EloquentPrefix \o calls[1].error

\* C21: a run with the local provider never prompts for a key, never offers
\* a new key and never retries: at most one synthesize call, also when the
\* failure message matches the authentication-failure signature.
C21_LocalNeverPrompts ==
    (pc # "idle" /\ providerType = "local") =>
        /\ pc \in {"progress", "inflight", "done"}
        /\ keyPrompts = <<>>
        /\ offers = 0
        /\ ~retried
        /\ Len(calls) <= 1
        /\ (pc = "done" /\ calls # <<>> /\ calls[1].error # <<>>) =>
              errorShown = EloquentPrefix \o calls[1].error

C21_Witness ==
    /\ pc = "done"
    /\ providerType = "local"
    /\ Len(calls) = 1
    /\ calls[1].auth
    /\ offers = 0
    /\ keyPrompts = <<>>
    /\ errorShown = EloquentPrefix \o calls[1].error

(***************************************************************************)
(* Properties of the player, continued                                     *)
(***************************************************************************)
\* A step that calls statusBar.setPlaying(false)
SetPlayingFalseCalled ==
    \/ StopCommand
    \/ EndedOrStoppedHandled /\ onDidStopCallback # 0
    \/ PanelClosed /\ onDidStopCallback # 0

\* C22 as stated: setPlaying(false) is called only on a transition from
\* Playing to Idle, never while the indicator is already idle.
C22_NoIdleNotification ==
    [][SetPlayingFalseCalled => statusBar]_vars

DownloadHandled ==
    \/ HostReceive /\ Head(toHost).command = "download"
    \/ SaveDialogResolves

\* C23: handling `download`, up to the save dialog and after it, leaves the
\* temp file reference, the files on disk, the panel, its document and the
\* registered callback as they were, whatever the outcome.
C23_DownloadLeavesSession ==
    [][DownloadHandled =>
        UNCHANGED <<tempFile, disk, panel, surface, onDidStopCallback, onStopCount,
                    statusBar, isPlaying>>]_vars

C23_Witness ==
    /\ lastEvent = "download"
    /\ ~saveDialog
    /\ panel
    /\ tempFile # 0
    /\ tempFile \in disk
    /\ surface.src = tempFile
    /\ onDidStopCallback = sessions

(***************************************************************************)
(* Provider selection and the credential prompt                            *)
(* (selectProviderCommand, configChangeListener, handleProviderKeyPrompt)  *)
(***************************************************************************)
\* The stored settings, each credential slot on its own
StoredSettings ==
    { [provider |-> p, openaiApiKey |-> o, elevenlabsApiKey |-> e, azureApiKey |-> a,
       maxCharacters |-> 1] :
         p \in ProviderValues, o \in {"", "k1"}, e \in {"", "k1"}, a \in {"", "k1"} }

\* handleProviderKeyPrompt(provider), up to its first await
handleProviderKeyPrompt(st, provider) ==
    IF provider = "local" THEN "idle"
    ELSE IF ~Truthy(getProviderApiKey(st, provider)) THEN "providerKeyPrompt"
    ELSE "updateOffer"

\* The call handleProviderKeyPrompt(provider) by source runs up to its first
\* await: it joins the suspended calls unless it returned at once
StartFlow(flows, source, st, provider) ==
    LET at == handleProviderKeyPrompt(st, provider)
    IN  IF at = "idle" THEN flows
        ELSE Append(flows, [source |-> source, provider |-> provider, at |-> at])

RemoveAt(seq, i) ==
    SubSeq(seq, 1, i - 1) \o SubSeq(seq, i + 1, Len(seq))

\* No provider change is under way: the command is not running, no change
\* event is pending and no key-prompt dialog is open
Settled ==
    /\ pc = "idle"
    /\ changeEvents = 0
    /\ activeFlows = <<>>

\* eloquent.selectProvider: the quick pick resolves; with a selection the
\* command sets the flag and awaits the update of eloquent.provider, which
\* raises a change event when the value differs
SelectProviderCommand ==
    /\ Settled
    /\ \E selected \in Providers \cup {undefined} :
        IF selected = undefined
        THEN UNCHANGED <<settings, providerType, keyPrompts, pc, suppressProviderChangePrompt,
                         changeEvents, promptFlows>>
        ELSE /\ suppressProviderChangePrompt' = TRUE
             /\ settings' = [settings EXCEPT !.provider = selected]
             /\ changeEvents' = IF selected # settings.provider THEN 1 ELSE 0
             /\ providerType' = selected
             /\ keyPrompts' = <<>>
             /\ promptFlows' = <<>>
             /\ pc' = "updating"
    /\ UNCHANGED activeFlows
    /\ UNCHANGED <<apiKey, attempt, token, message, shouldRetryAuth, result, calls, errorShown,
                   offers, retried, preCancelled, played, request, response, rate, system,
                   systemEnv>>
    /\ UNCHANGED indicatorVars
    /\ UNCHANGED playerVars

\* The update promise settles: `finally` resets the flag and the command
\* calls handleProviderKeyPrompt(selected.value)
UpdateResolves ==
    /\ pc = "updating"
    /\ pc' = "idle"
    /\ suppressProviderChangePrompt' = FALSE
    /\ promptFlows' = Append(promptFlows, "command")
    /\ activeFlows' = StartFlow(activeFlows, "command", settings, providerType)
    /\ UNCHANGED <<settings, providerType, keyPrompts, changeEvents>>
    /\ UNCHANGED <<apiKey, attempt, token, message, shouldRetryAuth, result, calls, errorShown,
                   offers, retried, preCancelled, played, request, response, rate, system,
                   systemEnv>>
    /\ UNCHANGED indicatorVars
    /\ UNCHANGED playerVars

\* eloquent.provider is edited outside the command (settings.json, Settings UI)
ProviderEdited ==
    /\ Settled
    /\ \E value \in ProviderValues \ {settings.provider} :
        /\ settings' = [settings EXCEPT !.provider = value]
        /\ providerType' = value
    /\ changeEvents' = 1
    /\ keyPrompts' = <<>>
    /\ promptFlows' = <<>>
    /\ UNCHANGED <<pc, suppressProviderChangePrompt, activeFlows>>
    /\ UNCHANGED <<apiKey, attempt, token, message, shouldRetryAuth, result, calls, errorShown,
                   offers, retried, preCancelled, played, request, response, rate, system,
                   systemEnv>>
    /\ UNCHANGED indicatorVars
    /\ UNCHANGED playerVars

\* A listener that ignores the flag
Suppressed_Never(flag) ==
    FALSE

\* `|| suppressProviderChangePrompt` of the listener
Suppressed(flag) ==
    flag

\* onDidChangeConfiguration delivers the change of eloquent.provider
ConfigChangeListener ==
    /\ changeEvents > 0
    /\ changeEvents' = changeEvents - 1
    /\ IF Suppressed(suppressProviderChangePrompt)
       THEN UNCHANGED <<promptFlows, activeFlows>>
       ELSE /\ promptFlows' = Append(promptFlows, "listener")
            /\ activeFlows' = StartFlow(activeFlows, "listener", settings, settings.provider)
    /\ UNCHANGED <<settings, providerType, keyPrompts, pc, suppressProviderChangePrompt>>
    /\ UNCHANGED <<apiKey, attempt, token, message, shouldRetryAuth, result, calls, errorShown,
                   offers, retried, preCancelled, played, request, response, rate, system,
                   systemEnv>>
    /\ UNCHANGED indicatorVars
    /\ UNCHANGED playerVars

\* "Update API key?" of one suspended call resolves
AnswerUpdateOffer ==
    /\ \E i \in DOMAIN activeFlows :
        /\ activeFlows[i].at = "updateOffer"
        /\ \E action \in {"Update Key", "Keep Current Key", undefined} :
            activeFlows' = IF action = "Update Key"
                           THEN [activeFlows EXCEPT ![i].at = "providerKeyPrompt"]
                           ELSE RemoveAt(activeFlows, i)
    /\ UNCHANGED <<settings, providerType, keyPrompts, pc, suppressProviderChangePrompt,
                   changeEvents, promptFlows>>
    /\ UNCHANGED <<apiKey, attempt, token, message, shouldRetryAuth, result, calls, errorShown,
                   offers, retried, preCancelled, played, request, response, rate, system,
                   systemEnv>>
    /\ UNCHANGED indicatorVars
    /\ UNCHANGED playerVars

\* promptForApiKey(provider) of one suspended call runs to its end; the input
\* box, when there is an entry for the provider, resolves to key
AnswerProviderKeyPrompt ==
    /\ \E i \in DOMAIN activeFlows :
        /\ activeFlows[i].at = "providerKeyPrompt"
        /\ providerType' = activeFlows[i].provider
        /\ activeFlows' = RemoveAt(activeFlows, i)
        /\ \E key \in KeyInputs :
            /\ settings' = promptForApiKeyStore(settings, activeFlows[i].provider, key)
            /\ keyPrompts' = IF PromptSetting(activeFlows[i].provider) = "" THEN <<>> ELSE <<key>>
    /\ UNCHANGED <<pc, suppressProviderChangePrompt, changeEvents, promptFlows>>
    /\ UNCHANGED <<apiKey, attempt, token, message, shouldRetryAuth, result, calls, errorShown,
                   offers, retried, preCancelled, played, request, response, rate, system,
                   systemEnv>>
    /\ UNCHANGED indicatorVars
    /\ UNCHANGED playerVars

InitSettings ==
    /\ settings \in StoredSettings
    /\ InitRun
    /\ InitPlayer

NextSettings ==
    \/ SelectProviderCommand
    \/ UpdateResolves
    \/ ProviderEdited
    \/ ConfigChangeListener
    \/ AnswerUpdateOffer
    \/ AnswerProviderKeyPrompt

SpecSettings ==
    InitSettings /\ [][NextSettings]_vars

\* C24: a completed promptForApiKey(provider) changes no setting other than
\* the credential slot of that provider, changes that slot only to a non-empty
\* key that was entered, leaves every setting as it was when the input box
\* was dismissed or left empty, and for 'local' or an unknown provider shows
\* no input box and stores nothing. The same holds of the function for every
\* provider value and every answer at each reachable settings value.
C24_PromptWritesOnlyItsSlot ==
    [][ /\ AnswerProviderKeyPrompt =>
              LET slot == PromptSetting(providerType')
              IN  /\ \A f \in DOMAIN settings : f # slot => settings'[f] = settings[f]
                  /\ settings' # settings => /\ keyPrompts' # <<>>
                                             /\ Truthy(keyPrompts'[1])
                                             /\ settings'[slot] = keyPrompts'[1]
                  /\ (keyPrompts' # <<>> /\ Truthy(keyPrompts'[1])) => settings'[slot] = keyPrompts'[1]
                  /\ providerType' \notin {"openai", "elevenlabs", "azure"} =>
                         settings' = settings /\ keyPrompts' = <<>>
        /\ \A p \in ProviderValues, k \in KeyInputs :
              LET st == promptForApiKeyStore(settings, p, k)
              IN  /\ p \in {"local", UnknownProvider} => st = settings
                  /\ ~Truthy(k) => st = settings
                  /\ \A q \in {"openai", "elevenlabs", "azure"} \ {p} :
                         getProviderApiKey(st, q) = getProviderApiKey(settings, q)
      ]_vars

C24_Witness ==
    /\ Settled
    /\ providerType = "azure"
    /\ keyPrompts = <<"k2">>
    /\ settings.azureApiKey = "k2"
    /\ settings.openaiApiKey = "k1"
    /\ settings.elevenlabsApiKey = ""

\* C25 as stated: for a provider identity outside {openai, elevenlabs, azure,
\* local} createProvider returns no backend, and a run that resolved such an
\* identity issues no synthesize call.
C25_UnknownIdentityIsFatal ==
    (pc # "idle" /\ providerType \notin Providers) =>
        /\ createProvider(providerType, apiKey).name \notin {"OpenAI", "ElevenLabs", "Azure", "Local"}
        /\ calls = <<>>

\* C25, amended: createProvider falls back to the OpenAI backend, built with
\* the given key, for an identity outside the set; a run of
\* synthesizeFromSelection for such an identity never reaches createProvider:
\* it finds no stored key, promptForApiKey shows no input box and returns
\* undefined, and the run ends with no synthesize call, no result and no
\* message other than a validation message.
C25_UnknownFallsBackToOpenAI ==
    /\ \A type \in ProviderValues \ Providers :
          createProvider(type, apiKey) = createProvider("openai", apiKey)
    /\ (pc # "idle" /\ providerType \notin Providers) =>
          /\ pc \in {"keyPrompt", "done"}
          /\ apiKey = ""
          /\ calls = <<>>
          /\ keyPrompts = <<>>
          /\ offers = 0
          /\ result = 0
          /\ played = <<>>
          /\ RequestValid => errorShown = <<>>

C25_Witness ==
    /\ pc = "done"
    /\ providerType = UnknownProvider
    /\ RequestValid
    /\ calls = <<>>
    /\ keyPrompts = <<>>
    /\ errorShown = <<>>

\* The host handles `ended` or `stopped` posted by the document of a session
\* that a later play() has replaced
StaleLifecycleHandled ==
    /\ EndedOrStoppedHandled
    /\ Head(toHost).session # sessions

\* C26 as stated: handling a lifecycle message of a replaced session never
\* invokes the new session's onStop callback: the status indicator of the
\* new session, loading or playing, is not set to idle by it.
C26_StaleLifecycleIgnored ==
    [][StaleLifecycleHandled =>
          /\ onStopCount' = onStopCount
          /\ isPlaying' = isPlaying
          /\ statusBar' = statusBar]_vars

HasMarkerPhrase(m) ==
    \E marker \in PhraseMarkers : includes(toLowerCase(m), marker)

\* C28 as stated: a failure whose HTTP status, if it has one, is neither 401
\* nor 403 and whose message carries no marker phrase is never classified as
\* an authentication failure, so the credential re-prompt is not offered.
C28_NonAuthNeverReprompts ==
    (/\ pc = "classified"
     /\ response.kind = "http" => response.status \notin {401, 403}
     /\ ~HasMarkerPhrase(message)) => ~shouldRetryAuth

\* C29 as stated: the error a cloud backend makes of a response with HTTP
\* status 401 or 403 is classified as an authentication failure, whatever
\* the body of the response.
C29_AuthStatusAlwaysClassified ==
    (/\ pc = "classified"
     /\ response.kind = "http"
     /\ response.status \in {401, 403}) => shouldRetryAuth

\* C30: when the panel is closed, the handler dereferences the temp file
\* (it is off the disk unless the unlinkSync threw), clears the panel
\* reference and invokes the registered callback, which sets the indicators
\* idle; a later play() that returns finds no panel and creates one, with
\* the document of the new session, empty message queues and the new
\* callback, so that its messages and its disposal are handled again.
C30_PanelClosedThenFreshPanel ==
    [][ /\ (panel /\ lastEvent' = "panelClosed" /\ sessions' = sessions) =>
              /\ ~panel'
              /\ surface' = NoDocument
              /\ tempFile' = 0 \/ tempFile' \notin disk'
              /\ ~unlinkFailed' => disk' = {}
              /\ onDidStopCallback # 0 =>
                    /\ onStopCount' = Min(onStopCount + 1, 2)
                    /\ ~statusBar'
                    /\ ~isPlaying'
        /\ (sessions' = sessions + 1 /\ ~panel /\ sessions > 0 /\ lastEvent' # "playThrew") =>
              /\ panel'
              /\ surface' = Document(sessions', tempFile')
              /\ tempFile' \in disk'
              /\ toHost' = <<>>
              /\ toSurface' = <<>>
              /\ onDidStopCallback' = sessions'
              /\ onStopCount' = 0
      ]_vars

C30_Witness ==
    /\ lastEvent = "panelClosed"
    /\ sessions = 1
    /\ ~panel
    /\ surface = NoDocument
    /\ tempFile = 0
    /\ disk = {}
    /\ onDidStopCallback = 1
    /\ onStopCount = 1
    /\ ~statusBar
    /\ ~isPlaying

\* A step of play(), stop(), the panel-disposal handler or dispose() that
\* starts with a referenced file on disk and ends with that file still on
\* disk: the unlinkSync of cleanup threw. (A play() that takes the same path
\* again writes the file anew and is left out.)
UnlinkThrewInTeardown ==
    /\ tempFile # 0
    /\ tempFile \in disk
    /\ sessions' = sessions + 1 \/ lastEvent' \in {"stop", "panelClosed", "dispose"}
    /\ tempFile \in disk'
    /\ ~(sessions' = sessions + 1 /\ now' = tempFile)

C32_UniquePathPerSession ==
    [][(sessions' = sessions + 1 /\ tempFile # 0) => tempFile' # tempFile]_vars

(***************************************************************************)
(* SystemAudioPlayer in use                                                *)
(***************************************************************************)
\* SystemAudioPlayer.play; spawnOk = FALSE: spawn throws, the catch block
\* runs cleanup and rethrows
SystemPlay ==
    /\ systemEnv.sessions < MaxSessions
    /\ \E t \in {systemEnv.now, Min(systemEnv.now + 1, MaxTime)} \ {0},
          unlinkOk \in UnlinkOutcomes(system.tempFile, systemEnv.disk),
          writeOk \in BOOLEAN, spawnOk \in BOOLEAN :
        LET stopped == SystemStopBody(system, systemEnv, unlinkOk)
            s == systemEnv.sessions + 1
            registered == [stopped.system EXCEPT !.onDidStopCallback = s, !.tempFile = t]
            env == [stopped.env EXCEPT !.now = t, !.sessions = s]
        IN  IF ~writeOk
            THEN /\ spawnOk
                 /\ system' = registered
                 /\ systemEnv' = env
            ELSE IF spawnOk
            THEN /\ system' = [registered EXCEPT !.currentProcess = s]
                 /\ systemEnv' = [env EXCEPT !.disk = @ \cup {t}, !.alive = @ \cup {s}]
            ELSE LET c == SystemCleanup(registered, env.disk \cup {t}, TRUE)
                 IN  /\ system' = c.system
                     /\ systemEnv' = [env EXCEPT !.disk = c.disk]
    /\ UNCHANGED <<settings, response, rate, suppressProviderChangePrompt,
                   changeEvents, activeFlows, promptFlows>>
    /\ UNCHANGED runVars
    /\ UNCHANGED indicatorVars
    /\ UNCHANGED playerVars

\* SystemAudioPlayer.stop, called directly or through dispose()
SystemStop ==
    /\ \E unlinkOk \in UnlinkOutcomes(system.tempFile, systemEnv.disk) :
        LET stopped == SystemStopBody(system, systemEnv, unlinkOk)
        IN  /\ system' = stopped.system
            /\ systemEnv' = stopped.env
    /\ UNCHANGED <<settings, response, rate, suppressProviderChangePrompt,
                   changeEvents, activeFlows, promptFlows>>
    /\ UNCHANGED runVars
    /\ UNCHANGED indicatorVars
    /\ UNCHANGED playerVars

\* The `close` (or `error`) handler registered on process p runs: the process
\* has exited, by itself or killed
ProcessClosed ==
    /\ \E p \in systemEnv.alive,
          unlinkOk \in UnlinkOutcomes(system.tempFile, systemEnv.disk) :
        LET c == SystemCleanup(system, systemEnv.disk, unlinkOk)
        IN  /\ system' = c.system
            /\ systemEnv' = [systemEnv EXCEPT !.alive = @ \ {p},
                                              !.disk = c.disk,
                                              !.stops = SystemInvokeCallback(system, @)]
    /\ UNCHANGED <<settings, response, rate, suppressProviderChangePrompt,
                   changeEvents, activeFlows, promptFlows>>
    /\ UNCHANGED runVars
    /\ UNCHANGED indicatorVars
    /\ UNCHANGED playerVars

InitSystem ==
    /\ settings \in { st \in SettingsChoices : st.provider = "openai" /\ st.openaiApiKey = "k1"
                                                /\ st.maxCharacters = 1 }
    /\ InitRun
    /\ InitPlayer

NextSystem ==
    \/ SystemPlay
    \/ SystemStop
    \/ ProcessClosed

SpecSystem ==
    InitSystem /\ [][NextSystem]_vars

\* The handler of a process that is not the current one runs while a newer
\* process is current
StaleProcessClosed ==
    /\ systemEnv'.alive # systemEnv.alive
    /\ systemEnv'.alive \subseteq systemEnv.alive
    /\ system.currentProcess # 0
    /\ system.currentProcess \in systemEnv'.alive

\* C33 as stated: the `close`/`error` event of a process that was killed or
\* replaced leaves the newer session alone (its temp file stays referenced
\* and on disk, currentProcess stays, its onStop is not invoked), and the
\* onStop of a session is invoked at most once.
C33_StaleCloseLeavesNewSession ==
    [][ /\ StaleProcessClosed =>
              /\ system' = system
              /\ systemEnv'.disk = systemEnv.disk
              /\ systemEnv'.stops = systemEnv.stops
        /\ \A s \in 1..MaxSessions : systemEnv'.stops[s] <= 1
      ]_vars

\* C34 as stated: every provider change, made through the command or
\* outside it, has run handleProviderKeyPrompt exactly once by the time it
\* is settled, whenever the change event was delivered.
C34_PromptFlowOncePerChange ==
    [][(~Settled /\ Settled') => Len(promptFlows') = 1]_vars

\* C34, amended: while the command awaits the update the flag is set and a
\* change event delivered then starts no key-prompt flow; the flag is reset
\* when the update settles, the command then runs the flow once, and a
\* change event delivered after that runs it once more through the
\* listener. A change made outside the command runs the flow once, through
\* the listener.
C34_SuppressedOnlyWhileUpdating ==
    [][ /\ suppressProviderChangePrompt <=> pc = "updating"
        /\ pc = "updating" => promptFlows = <<>>
        /\ (pc = "updating" /\ changeEvents' < changeEvents) => promptFlows' = <<>>
        /\ (pc = "idle" /\ changeEvents' < changeEvents) =>
              promptFlows' = Append(promptFlows, "listener")
        /\ (~Settled /\ Settled') =>
              promptFlows' \in {<<"command">>, <<"listener">>, <<"command", "listener">>}
      ]_vars

C34_Witness ==
    /\ Settled
    /\ ~suppressProviderChangePrompt
    /\ promptFlows = <<"command", "listener">>
    /\ settings.provider = "azure"

(***************************************************************************)
(* The indicator under fair message delivery                               *)
(***************************************************************************)
\* audio.onerror for a file that is on disk: the element cannot load or decode it
DecodeError ==
    /\ surface.phase = "loading"
    /\ surface.src \in disk
    /\ surface' = [surface EXCEPT !.phase = "error"]
    /\ UNCHANGED <<toHost, toSurface>>
    /\ hostFrame

NextPlayerFair ==
    \/ ReadAloud
    \/ StopCommand
    \/ PanelClosed
    \/ HostReceive
    \/ LoadedMetadata
    \/ LoadError
    \/ DecodeError
    \/ SurfaceReceive
    \/ AudioEnded
    \/ ClickStop

\* postMessage in both directions is delivered in order and never lost: a message
\* that stays at the head of a queue is eventually received
SpecPlayerFair ==
    /\ InitPlayerSpec
    /\ [][NextPlayerFair]_vars
    /\ WF_vars(HostReceive)
    /\ WF_vars(SurfaceReceive)

\* C35: under fair message delivery, a session whose audio the surface failed to
\* load eventually has the status indicator back at idle
C35_LoadFailureReturnsToIdle ==
    (surface.phase = "error" /\ statusBar) ~> ~statusBar

\* The two notified cases: an "ended" or "stopped" message in flight leads to idle
EndedOrStoppedReturnsToIdle ==
    (\E i \in 1..Len(toHost) : toHost[i].command \in {"ended", "stopped"}) ~> ~statusBar

\* C36: speedToRate gives an integer of the SAPI range -10 .. 10 for every speed
\* in 0.25 .. 4.0; speed 4.0 gives 10 and speed 0.25 gives Math.round(-7.5),
\* which is -7 (halves go toward +Infinity).
C36_SapiRateInRange ==
    rate # NoRate =>
        /\ rate.sapi \in -10 .. 10
        /\ rate.speed = 4 * SpeedScale => rate.sapi = 10
        /\ 4 * rate.speed = SpeedScale =>
              /\ rate.sapi = MathRound(-75, 10)
              /\ rate.sapi = -7

C36_Witness ==
    /\ rate # NoRate
    /\ 4 * rate.speed = SpeedScale
    /\ rate.sapi = -7

====
